---- MODULE Spec2Model ----
(***************************************************************************)
(* CanuckLingo (Allenzzp/XLin): the App component's notebook store, its    *)
(* persistence to localStorage, the search flow of handleSearch and the    *)
(* story flow of handleGenerateStory, with the Gemini service wrappers of  *)
(* services/geminiService.ts.                                              *)
(*                                                                         *)
(* JavaScript values are tagged records: Undefined, Null, Str(s), Num(n),  *)
(* Arr(<<v1, ...>>) and Obj(<<<<key, v>>, ...>>) (keys in insertion order).*)
(* JSON text is a TLA+ string; JSON.stringify and JSON.parse are computed  *)
(* character by character.                                                 *)
(***************************************************************************)
EXTENDS Integers, Sequences, FiniteSets, TLC

\* Largest value of the clock Date.now() reads; a search may start only below it.
MaxNow == 1

\* The number of messages the user sends on one card.
MaxChat == 2

---------------------------------------------------------------------------
(* JavaScript values *)

Undefined == [t |-> "undefined"]
Null == [t |-> "null"]
Str(s) == [t |-> "str", s |-> s]
Num(n) == [t |-> "num", n |-> n]
Arr(a) == [t |-> "arr", a |-> a]
Obj(o) == [t |-> "obj", o |-> o]

IsArr(v) == v.t = "arr"
IsObj(v) == v.t = "obj"
IsStr(v) == v.t = "str"

\* JavaScript truthiness of a value (if (x), x || y, !!x).
Truthy(v) ==
  CASE v.t = "undefined" -> FALSE
    [] v.t = "null" -> FALSE
    [] v.t = "str" -> v.s # ""
    [] v.t = "num" -> v.n # 0
    [] OTHER -> TRUE

\* The index of key k among the pairs o, or 0.
RECURSIVE KeyIndex(_, _, _)
KeyIndex(o, k, i) ==
  IF i > Len(o) THEN 0
  ELSE IF o[i][1] = k THEN i
  ELSE KeyIndex(o, k, i + 1)

\* Property read v.k: undefined for a missing key and for a primitive.
\* (Reading a property of null or undefined throws: see CanReadProp.)
Get(v, k) ==
  IF IsObj(v) /\ KeyIndex(v.o, k, 1) # 0 THEN v.o[KeyIndex(v.o, k, 1)][2]
  ELSE Undefined

CanReadProp(v) == v.t \notin {"undefined", "null"}

\* Property definition in an object literal: a repeated key keeps its first
\* position and takes the later value. (x names the value of o, so that it
\* is computed once.)
SetKey(o, k, v) ==
  CHOOSE r \in { IF KeyIndex(x, k, 1) = 0 THEN Append(x, <<k, v>>)
                 ELSE [x EXCEPT ![KeyIndex(x, k, 1)] = <<k, v>>] : x \in {o} } : TRUE

\* Object spread {...src} into the pairs o: own enumerable properties of an
\* object; a primitive, null or undefined spreads nothing.
RECURSIVE SpreadFrom(_, _, _)
SpreadFrom(o, src, i) ==
  IF i > Len(src) THEN o
  ELSE CHOOSE r \in { SpreadFrom(x, src, i + 1) :
                        x \in {SetKey(o, src[i][1], src[i][2])} } : TRUE

Spread(o, v) == IF IsObj(v) THEN SpreadFrom(o, v.o, 1) ELSE o

---------------------------------------------------------------------------
(* Strings *)

Ch(s, i) == SubSeq(s, i, i)

Digits == <<"0", "1", "2", "3", "4", "5", "6", "7", "8", "9">>

IsDigit(c) == \E d \in 1..10 : Digits[d] = c

DigitVal(c) == (CHOOSE d \in 1..10 : Digits[d] = c) - 1

\* Number.prototype.toString() of a non-negative integer.
RECURSIVE NumToString(_)
NumToString(n) ==
  IF n < 10 THEN Digits[n + 1]
  ELSE NumToString(n \div 10) \o Digits[(n % 10) + 1]

\* String.prototype.trim() is the empty string.
RECURSIVE TrimIsEmpty(_)
TrimIsEmpty(s) ==
  IF s = "" THEN TRUE
  ELSE IF Ch(s, 1) = " " THEN TrimIsEmpty(Tail(s))
  ELSE FALSE

---------------------------------------------------------------------------
(* JSON.stringify *)

\* The quoted form of a string: the quote and the backslash are escaped.
RECURSIVE Escape(_)
Escape(s) ==
  IF s = "" THEN ""
  ELSE IF Ch(s, 1) = "\"" THEN "\\\"" \o Escape(Tail(s))
  ELSE IF Ch(s, 1) = "\\" THEN "\\\\" \o Escape(Tail(s))
  ELSE Ch(s, 1) \o Escape(Tail(s))

Quote(s) == "\"" \o Escape(s) \o "\""

RECURSIVE Stringify(_)
RECURSIVE StringifyElems(_, _)
RECURSIVE StringifyMembers(_, _, _)

\* The elements i.. of an array, comma separated; undefined is written null.
StringifyElems(a, i) ==
  IF i > Len(a) THEN ""
  ELSE (IF i > 1 THEN "," ELSE "")
       \o (IF a[i].t = "undefined" THEN "null" ELSE Stringify(a[i]))
       \o StringifyElems(a, i + 1)

\* The members i.. of an object; a member whose value is undefined is left
\* out. first: no member has been written yet.
StringifyMembers(o, i, first) ==
  IF i > Len(o) THEN ""
  ELSE IF o[i][2].t = "undefined" THEN StringifyMembers(o, i + 1, first)
  ELSE (IF first THEN "" ELSE ",")
       \o Quote(o[i][1]) \o ":" \o Stringify(o[i][2])
       \o StringifyMembers(o, i + 1, FALSE)

Stringify(v) ==
  CASE v.t = "null" -> "null"
    [] v.t = "str" -> Quote(v.s)
    [] v.t = "num" -> NumToString(v.n)
    [] v.t = "arr" -> "[" \o StringifyElems(v.a, 1) \o "]"
    [] v.t = "obj" -> "{" \o StringifyMembers(v.o, 1, TRUE) \o "}"

---------------------------------------------------------------------------
(* JSON.parse: a recursive descent parser. Each Parse* operator is given   *)
(* the text and a position and returns [ok, v, i]: whether a value was     *)
(* read, the value, and the position after it.                             *)

ParseFail == [ok |-> FALSE, v |-> Null, i |-> 0]
ParseOk(v, i) == [ok |-> TRUE, v |-> v, i |-> i]

RECURSIVE SkipWs(_, _)
SkipWs(s, i) ==
  IF i <= Len(s) /\ Ch(s, i) = " " THEN SkipWs(s, i + 1) ELSE i

\* The characters of a string literal from i (after the opening quote),
\* unescaped, up to the closing quote.
RECURSIVE ParseChars(_, _, _)
ParseChars(s, i, acc) ==
  IF i > Len(s) THEN ParseFail
  ELSE IF Ch(s, i) = "\"" THEN ParseOk(Str(acc), i + 1)
  ELSE IF Ch(s, i) = "\\" THEN
    IF i + 1 <= Len(s) /\ Ch(s, i + 1) \in {"\"", "\\"}
    THEN ParseChars(s, i + 2, acc \o Ch(s, i + 1))
    ELSE ParseFail
  ELSE ParseChars(s, i + 1, acc \o Ch(s, i))

RECURSIVE ParseDigits(_, _, _)
ParseDigits(s, i, acc) ==
  IF i <= Len(s) /\ IsDigit(Ch(s, i))
  THEN ParseDigits(s, i + 1, acc * 10 + DigitVal(Ch(s, i)))
  ELSE ParseOk(Num(acc), i)

RECURSIVE ParseValue(_, _)
RECURSIVE ParseElems(_, _, _)
RECURSIVE ParseMembers(_, _, _)

\* After an element of an array: "," and another element, or "]".
ParseElems(s, i, acc) ==
  LET e == ParseValue(s, i)
      j == SkipWs(s, e.i)
  IN IF ~e.ok \/ j > Len(s) THEN ParseFail
     ELSE IF Ch(s, j) = "," THEN ParseElems(s, j + 1, Append(acc, e.v))
     ELSE IF Ch(s, j) = "]" THEN ParseOk(Arr(Append(acc, e.v)), j + 1)
     ELSE ParseFail

\* A member "key":value of an object, then "," and another member, or "}".
ParseMembers(s, i, acc) ==
  LET k0 == SkipWs(s, i)
      k == IF k0 <= Len(s) /\ Ch(s, k0) = "\"" THEN ParseChars(s, k0 + 1, "")
           ELSE ParseFail
      c == SkipWs(s, k.i)
      e == IF k.ok /\ c <= Len(s) /\ Ch(s, c) = ":" THEN ParseValue(s, c + 1)
           ELSE ParseFail
      j == SkipWs(s, e.i)
  IN IF ~e.ok \/ j > Len(s) THEN ParseFail
     ELSE IF Ch(s, j) = "," THEN ParseMembers(s, j + 1, SetKey(acc, k.v.s, e.v))
     ELSE IF Ch(s, j) = "}" THEN ParseOk(Obj(SetKey(acc, k.v.s, e.v)), j + 1)
     ELSE ParseFail

ParseValue(s, i0) ==
  LET i == SkipWs(s, i0)
  IN IF i > Len(s) THEN ParseFail
     ELSE IF Ch(s, i) = "\"" THEN ParseChars(s, i + 1, "")
     ELSE IF IsDigit(Ch(s, i)) THEN ParseDigits(s, i, 0)
     ELSE IF i + 3 <= Len(s) /\ SubSeq(s, i, i + 3) = "null" THEN ParseOk(Null, i + 4)
     ELSE IF Ch(s, i) = "[" THEN
       LET j == SkipWs(s, i + 1)
       IN IF j <= Len(s) /\ Ch(s, j) = "]" THEN ParseOk(Arr(<<>>), j + 1)
          ELSE ParseElems(s, i + 1, <<>>)
     ELSE IF Ch(s, i) = "{" THEN
       LET j == SkipWs(s, i + 1)
       IN IF j <= Len(s) /\ Ch(s, j) = "}" THEN ParseOk(Obj(<<>>), j + 1)
          ELSE ParseMembers(s, i + 1, <<>>)
     ELSE ParseFail

\* JSON.parse(text): [ok, v]; ~ok is a thrown SyntaxError (also for text
\* left over after the value).
JsonParse(s) ==
  LET r == ParseValue(s, 1)
  IN IF r.ok /\ SkipWs(s, r.i) = Len(s) + 1 THEN [ok |-> TRUE, v |-> r.v]
     ELSE [ok |-> FALSE, v |-> Null]

---------------------------------------------------------------------------
(* The Gemini service (services/geminiService.ts) and what it may answer *)

\* response.text of a well-formed explanation: the six fields of the schema.
ExplainText ==
  "{\"definitionEnglish\":\"knit cap\",\"definitionMandarin\":\"mao\","
  \o "\"examples\":[{\"english\":\"Grab a toque.\",\"mandarin\":\"dai\"}],"
  \o "\"usageNote\":\"say \\\"tuke\\\"\",\"imagePrompt\":\"hat\"}"

\* generateContent for explainTerm: a rejection, or a response whose text is
\* empty, is not JSON, is the JSON null, or is an explanation.
ExplainResponses ==
  { [rejected |-> TRUE, text |-> ""],
    [rejected |-> FALSE, text |-> ""],
    [rejected |-> FALSE, text |-> "{\"definitionEnglish\":"],
    [rejected |-> FALSE, text |-> "null"],
    [rejected |-> FALSE, text |-> ExplainText] }

\* How the generateContent call for the explanation ended.
ExplainOutcome(resp) ==
  IF resp.rejected THEN "rejected"
  ELSE IF resp.text = "" THEN "empty"
  ELSE IF ~JsonParse(resp.text).ok THEN "unparsable"
  ELSE IF IsObj(JsonParse(resp.text).v) THEN "explanation"
  ELSE "other"

\* explainTerm that returns an empty explanation for a text JSON.parse
\* rejects.
explainTermLenient(resp) ==
  IF resp.rejected \/ resp.text = "" THEN [threw |-> TRUE, v |-> Undefined]
  ELSE IF ~JsonParse(resp.text).ok THEN [threw |-> FALSE, v |-> Obj(<<>>)]
  ELSE [threw |-> FALSE, v |-> JsonParse(resp.text).v]

\* explainTerm after the await: [threw, v]. It throws on a rejection, on an
\* empty text and when JSON.parse throws; otherwise returns the parsed value.
explainTerm(resp) ==
  IF resp.rejected THEN [threw |-> TRUE, v |-> Undefined]
  ELSE IF resp.text = "" THEN [threw |-> TRUE, v |-> Undefined]
  ELSE IF ~JsonParse(resp.text).ok THEN [threw |-> TRUE, v |-> Undefined]
  ELSE [threw |-> FALSE, v |-> JsonParse(resp.text).v]

\* generateContent for generateConceptImage: a rejection, or the parts of the
\* first candidate (none when there is no candidate); a part may carry
\* inlineData.
IllustrateResponses ==
  { [rejected |-> TRUE, parts |-> <<>>],
    [rejected |-> FALSE, parts |-> <<>>],
    [rejected |-> FALSE, parts |-> <<[inline |-> FALSE, mimeType |-> "", data |-> ""]>>],
    [rejected |-> FALSE,
     parts |-> <<[inline |-> FALSE, mimeType |-> "", data |-> ""],
                 [inline |-> TRUE, mimeType |-> "image/png", data |-> "iVBO"]>>] }

\* The loop over the parts: the data URI of the first part with inlineData.
RECURSIVE FirstImage(_, _)
FirstImage(parts, i) ==
  IF i > Len(parts) THEN Undefined
  ELSE IF parts[i].inline
  THEN Str("data:" \o parts[i].mimeType \o ";base64," \o parts[i].data)
  ELSE FirstImage(parts, i + 1)

\* How the generateContent call for the image ended.
IllustrateOutcome(resp) ==
  IF resp.rejected THEN "rejected"
  ELSE IF \E i \in 1..Len(resp.parts) : resp.parts[i].inline THEN "image"
  ELSE "noImage"

\* generateConceptImage without its try and catch: a rejection propagates.
generateConceptImageNoCatch(resp) ==
  IF resp.rejected THEN [threw |-> TRUE, v |-> Undefined]
  ELSE [threw |-> FALSE, v |-> FirstImage(resp.parts, 1)]

\* generateConceptImage after the await: [threw, v]. The catch turns a
\* rejection into undefined, so it never throws.
generateConceptImage(resp) ==
  IF resp.rejected THEN [threw |-> FALSE, v |-> Undefined]
  ELSE [threw |-> FALSE, v |-> FirstImage(resp.parts, 1)]

StoryFallback == "Could not generate story."

\* generateContent for generateStoryFromList: a rejection or a response text.
NarrateResponses ==
  { [rejected |-> TRUE, text |-> ""],
    [rejected |-> FALSE, text |-> ""],
    [rejected |-> FALSE, text |-> "A **toque** tale."] }

\* generateStoryFromList after the await: [threw, v].
generateStoryFromList(resp) ==
  IF resp.rejected THEN [threw |-> TRUE, v |-> ""]
  ELSE [threw |-> FALSE, v |-> IF resp.text # "" THEN resp.text ELSE StoryFallback]

ChatFallback == "I couldn't understand that."

\* chat.sendMessage for sendChatMessage: a rejection or a response text.
ConverseResponses ==
  { [rejected |-> TRUE, text |-> ""],
    [rejected |-> FALSE, text |-> "Yes, eh."] }

\* sendChatMessage after the await: [threw, v].
sendChatMessage(resp) ==
  IF resp.rejected THEN [threw |-> TRUE, v |-> ""]
  ELSE [threw |-> FALSE, v |-> IF resp.text # "" THEN resp.text ELSE ChatFallback]

-------------------------------------------------------------------------------------------------------------------------------------------------
(* The App component: state *)

VARIABLES
  storage,          \* localStorage[LOCAL_STORAGE_KEY]
  appPc,            \* "start", "mounted" (mount effects ran, re-render due), "running", "crashed"
  fault,            \* the uncaught error that unmounted the root, or "none"
  pending,          \* the state update setNotebook queued in the load effect
  notebook,         \* useState notebook
  view,             \* useState view
  searchTerm,       \* useState searchTerm
  context,          \* useState context
  isSearching,      \* useState isSearching
  currentResult,    \* useState currentResult (Null or an entry)
  flashcardIndex,   \* useState flashcardIndex
  story,            \* useState story (Null or Str)
  isGeneratingStory,\* useState isGeneratingStory
  search,           \* the running handleSearch call: its position and its closure
  narrate,          \* the running handleGenerateStory call
  now,              \* the clock Date.now() reads
  flow,             \* the last search: its flow state (spec 4.3) and how its
                    \* generateContent calls ended
  lastToggle,       \* the last toggleSave call since the notebook was loaded
  persisted,        \* the collection last written to the slot
  boot,             \* the slot and the persisted collection at process start
  card,             \* the state of the mounted ResultCard: chatInput,
                    \* chatHistory, isChatLoading, isPlayingAudio
  converse,         \* the sendChatMessage calls of the mounted card that have
                    \* not settled, each with its arguments
  speak,            \* whether a playTTS call of the mounted card has not settled
  discarded         \* the result whose card was last unmounted with messages in
                    \* its transcript, or Null

vars == <<storage, appPc, fault, pending, notebook, view, searchTerm, context,
          isSearching, currentResult, flashcardIndex, story, isGeneratingStory,
          search, narrate, now, flow, lastToggle, persisted, boot,
          card, converse, speak, discarded>>

\* The slot canucklingo_notebook: absent, or a text.
NoItem == [present |-> FALSE, text |-> ""]
Item(s) == [present |-> TRUE, text |-> s]

NoPending == [set |-> FALSE, v |-> Null]
NoSearch == [pc |-> "idle", term |-> "", context |-> "", textData |-> Undefined, prompt |-> Undefined]
NoNarrate == [pc |-> "idle", terms |-> <<>>]
NoToggle == [kind |-> "none", term |-> Null, before |-> 0]
NoCollection == [known |-> FALSE, v |-> Null]
Collection(v) == [known |-> TRUE, v |-> v]
FlowAt(st) == [state |-> st, explain |-> "none", illustrate |-> "none"]
NoBoot == [known |-> FALSE, slot |-> NoItem, coll |-> NoCollection]

\* The state of a ResultCard at its mount (the useState initial values).
NoCard == [chatInput |-> "", chatHistory |-> <<>>, isChatLoading |-> FALSE,
           isPlayingAudio |-> FALSE]

\* A ChatMessage.
ChatMessage(role, text) == [role |-> role, text |-> text]

\* Strict equality === of two primitives.
StrictEq(a, b) == a.t = b.t /\ a = b

\* notebook.length of an array.
Length(nb) == Len(nb.a)

\* The entry handleSearch builds: id and timestamp from the clock, the term
\* and context of the search, the explanation spread over them, and last the
\* image reference.
MakeEntry(t, term, ctx, textData, imageUrl) ==
  Obj(SetKey(Spread(<< <<"id", Str(NumToString(t))>>,
                       <<"term", Str(term)>>,
                       <<"context", Str(ctx)>>,
                       <<"timestamp", Num(t)>> >>, textData),
             "imageUrl", imageUrl))

---------------------------------------------------------------------------
(* The user's inputs and the initial content of the persisted slot *)

\* What the user may type into the term and context inputs.
TermInputs == {"", " ", "toque", "double-double"}
ContextInputs == {"", "at \"Tims\""}

\* An entry saved by an earlier session: a search for "toque" at clock 0
\* whose illustration gave no image.
SavedEarlier == MakeEntry(0, "toque", "", JsonParse(ExplainText).v, Undefined)

\* The slot when the process first starts, with the collection it persists
\* (if any): absent, empty text, text that is not JSON, JSON that is not a
\* list, and a list an earlier session saved.
InitialStores ==
  { [slot |-> NoItem, coll |-> NoCollection],
    [slot |-> Item(""), coll |-> NoCollection],
    [slot |-> Item("[{\"id\":"), coll |-> NoCollection],
    [slot |-> Item("{}"), coll |-> NoCollection],
    [slot |-> Item("null"), coll |-> NoCollection],
    [slot |-> Item(Stringify(Arr(<<SavedEarlier>>))),
     coll |-> Collection(Arr(<<SavedEarlier>>))] }

---------------------------------------------------------------------------
(* The App component: mounting and persistence *)

\* The state at process start, with the slot one of stores and the clock at
\* clock.
StartAt(clock, stores) ==
  /\ \E st \in stores :
       /\ storage = st.slot
       /\ persisted = st.coll
       /\ boot = [known |-> TRUE, slot |-> st.slot, coll |-> st.coll]
  /\ appPc = "start"
  /\ fault = "none"
  /\ pending = NoPending
  /\ notebook = Arr(<<>>)
  /\ view = "SEARCH"
  /\ searchTerm = ""
  /\ context = ""
  /\ isSearching = FALSE
  /\ currentResult = Null
  /\ flashcardIndex = 0
  /\ story = Null
  /\ isGeneratingStory = FALSE
  /\ search = NoSearch
  /\ narrate = NoNarrate
  /\ now = clock
  /\ flow = FlowAt("Idle")
  /\ lastToggle = NoToggle
  /\ card = NoCard
  /\ converse = {}
  /\ speak = FALSE
  /\ discarded = Null

Init == StartAt(0, InitialStores)

\* The first launch: there is no slot yet.
NoStore == { [slot |-> NoItem, coll |-> NoCollection] }
FirstLaunch == StartAt(0, NoStore)

Running == appPc = "running"

\* Whether rendering App throws.
RenderThrows(v, nb, cur, idx) ==
  CASE v = "SEARCH" ->
         \* isSaved={!!notebook.find(...)} and ResultCard's data.examples.map
         Truthy(cur) /\ (~IsArr(nb) \/ ~IsArr(Get(cur, "examples")))
    [] v = "NOTEBOOK" ->
         \* notebook.length, then notebook.map
         ~IsArr(nb)
    [] v = "FLASHCARDS" ->
         \* notebook[flashcardIndex], then entry.imageUrl and
         \* entry.examples[0].english in Flashcard
         \/ ~IsArr(nb)
         \/ /\ Length(nb) # 0
            /\ \/ idx + 1 > Length(nb)
               \/ ~IsArr(Get(nb.a[idx + 1], "examples"))
               \/ Len(Get(nb.a[idx + 1], "examples").a) = 0
    [] OTHER -> FALSE

\* Whether App renders a ResultCard: {currentResult && <ResultCard .../>} on
\* the search screen.
CardMounted == Running /\ view = "SEARCH" /\ Truthy(currentResult)

\* A card whose state outlives its unmount.
CardKeepsState == UNCHANGED <<card, converse, speak, discarded>>

\* The ResultCard is unmounted, or a new one is mounted: a mount starts from
\* the initial values, and what the calls of an unmounted card set when they
\* settle is set on no component.
FreshCard ==
  /\ card' = NoCard
  /\ converse' = {}
  /\ speak' = FALSE
  /\ discarded' = IF card.chatHistory # <<>> THEN currentResult ELSE discarded

\* An error thrown while rendering or in an effect, with no error boundary:
\* React unmounts the root and the component's state is gone.
Crash(f) ==
  /\ appPc' = "crashed"
  /\ fault' = f
  /\ pending' = NoPending
  /\ notebook' = Arr(<<>>)
  /\ view' = "SEARCH"
  /\ searchTerm' = ""
  /\ context' = ""
  /\ isSearching' = FALSE
  /\ currentResult' = Null
  /\ flashcardIndex' = 0
  /\ story' = Null
  /\ isGeneratingStory' = FALSE
  /\ lastToggle' = NoToggle
  /\ boot' = NoBoot
  /\ FreshCard

\* A load effect that parses the slot and drops the result.
LoadEffectDropsParsed(slot, readOk) ==
  [threw |-> ~readOk, set |-> FALSE, v |-> Null]

\* The load effect: [threw, set, v]. getItem may throw (readOk = FALSE),
\* which the effect does not catch; setNotebook is called with whatever
\* JSON.parse returns; a SyntaxError is caught and logged.
LoadEffect(slot, readOk) ==
  IF ~readOk THEN [threw |-> TRUE, set |-> FALSE, v |-> Null]
  ELSE IF ~(slot.present /\ slot.text # "") THEN [threw |-> FALSE, set |-> FALSE, v |-> Null]
  ELSE IF JsonParse(slot.text).ok
  THEN [threw |-> FALSE, set |-> TRUE, v |-> JsonParse(slot.text).v]
  ELSE [threw |-> FALSE, set |-> FALSE, v |-> Null]

\* A save effect that skips the write of an empty list.
SaveEffectSkipsEmpty(nb, writeOk) ==
  IF ~writeOk THEN [threw |-> TRUE, slot |-> storage]
  ELSE IF IsArr(nb) /\ Length(nb) = 0 THEN [threw |-> FALSE, slot |-> storage]
  ELSE [threw |-> FALSE, slot |-> Item(Stringify(nb))]

\* The save effect for the collection nb: [threw, slot]. setItem may throw
\* (writeOk = FALSE), which the effect does not catch.
SaveEffect(nb, writeOk) ==
  IF writeOk THEN [threw |-> FALSE, slot |-> Item(Stringify(nb))]
  ELSE [threw |-> TRUE, slot |-> storage]

\* The first commit: both effects run with the notebook of the first
\* render, the empty list.
Mount ==
  /\ appPc = "start"
  /\ \E readOk \in BOOLEAN, writeOk \in BOOLEAN :
       LET l == LoadEffect(storage, readOk)
           w == SaveEffect(notebook, writeOk)
       IN IF l.threw \/ w.threw
          THEN /\ Crash(IF l.threw THEN "getItem" ELSE "setItem")
               /\ UNCHANGED <<storage, persisted>>
          ELSE /\ pending' = IF l.set THEN [set |-> TRUE, v |-> l.v] ELSE NoPending
               /\ storage' = w.slot
               /\ persisted' = Collection(notebook)
               /\ appPc' = IF l.set THEN "mounted" ELSE "running"
               /\ UNCHANGED <<fault, notebook, view, searchTerm, context, isSearching,
                              currentResult, flashcardIndex, story, isGeneratingStory,
                              lastToggle, boot, card, converse, speak, discarded>>
  /\ UNCHANGED <<search, narrate, now, flow>>

\* The render with the collection nb that follows setNotebook, and the save
\* effect after it. The other state of the component is left as it is.
CommitNotebook(nb, writeOk) ==
  LET w == SaveEffect(nb, writeOk)
  IN IF RenderThrows(view, nb, currentResult, flashcardIndex) \/ w.threw
     THEN /\ Crash(IF w.threw THEN "setItem" ELSE "render")
          /\ UNCHANGED <<storage, persisted>>
     ELSE /\ notebook' = nb
          /\ storage' = w.slot
          /\ persisted' = Collection(nb)
          /\ appPc' = "running"
          /\ pending' = NoPending
          /\ UNCHANGED <<fault, view, searchTerm, context, isSearching, currentResult,
                         flashcardIndex, story, isGeneratingStory, card, converse,
                         speak, discarded>>

\* The re-render the load effect's setNotebook asked for.
MountCommit ==
  /\ appPc = "mounted"
  /\ \E writeOk \in BOOLEAN :
       /\ CommitNotebook(pending.v, writeOk)
       /\ IF writeOk THEN UNCHANGED <<lastToggle, boot>> ELSE TRUE
  /\ UNCHANGED <<search, narrate, now, flow>>

\* The page is closed or reloaded: memory is lost, the slot stays.
Restart ==
  /\ appPc # "start"
  /\ appPc' = "start"
  /\ fault' = "none"
  /\ pending' = NoPending
  /\ notebook' = Arr(<<>>)
  /\ view' = "SEARCH"
  /\ searchTerm' = ""
  /\ context' = ""
  /\ isSearching' = FALSE
  /\ currentResult' = Null
  /\ flashcardIndex' = 0
  /\ story' = Null
  /\ isGeneratingStory' = FALSE
  /\ search' = NoSearch
  /\ narrate' = NoNarrate
  /\ flow' = FlowAt("Idle")
  /\ lastToggle' = NoToggle
  /\ boot' = [known |-> TRUE, slot |-> storage, coll |-> persisted]
  /\ card' = NoCard
  /\ converse' = {}
  /\ speak' = FALSE
  /\ discarded' = Null
  /\ UNCHANGED <<storage, persisted, now>>

---------------------------------------------------------------------------
(* toggleSave *)

\* A find that compares the id instead of the term: the entry of an earlier
\* search for the same term is not found.
RECURSIVE FindById(_, _, _)
FindById(a, term, i) ==
  IF i > Len(a) THEN 0
  ELSE IF StrictEq(Get(a[i], "id"), term) THEN i
  ELSE FindById(a, term, i + 1)

\* notebook.find(n => n.term === term): the index of the first match, or 0.
RECURSIVE FindTerm(_, _, _)
FindTerm(a, term, i) ==
  IF i > Len(a) THEN 0
  ELSE IF StrictEq(Get(a[i], "term"), term) THEN i
  ELSE FindTerm(a, term, i + 1)

\* prev.filter(n => n.term !== term)
RECURSIVE FilterTerm(_, _)
FilterTerm(a, term) ==
  IF a = <<>> THEN <<>>
  ELSE IF StrictEq(Get(Head(a), "term"), term) THEN FilterTerm(Tail(a), term)
  ELSE <<Head(a)>> \o FilterTerm(Tail(a), term)

\* toggleSave without the exists branch: the entry is always appended.
ToggledNotebookAppendOnly(nb, entry) == Arr(Append(nb.a, entry))

\* The collection toggleSave(entry) passes to setNotebook.
ToggledNotebook(nb, entry) ==
  IF FindTerm(nb.a, Get(entry, "term"), 1) # 0
  THEN Arr(FilterTerm(nb.a, Get(entry, "term")))
  ELSE Arr(Append(nb.a, entry))

\* toggleSave(entry), the re-render and the save effect. With a notebook
\* that is no array notebook.find throws in the handler and nothing changes.
toggleSave(entry) ==
  IF ~IsArr(notebook)
  THEN /\ lastToggle' = [kind |-> "throw", term |-> Get(entry, "term"), before |-> 0]
       /\ UNCHANGED <<storage, appPc, fault, pending, notebook, view, searchTerm,
                      context, isSearching, currentResult, flashcardIndex, story,
                      isGeneratingStory, persisted, boot, card, converse, speak, discarded>>
  ELSE \E writeOk \in BOOLEAN :
         /\ CommitNotebook(ToggledNotebook(notebook, entry), writeOk)
         /\ IF writeOk
            THEN /\ lastToggle' =
                      [kind |-> IF FindTerm(notebook.a, Get(entry, "term"), 1) # 0
                                THEN "remove" ELSE "add",
                       term |-> Get(entry, "term"),
                       before |-> Length(notebook)]
                 /\ boot' = NoBoot
            ELSE TRUE

\* The bookmark button of the ResultCard: onSave(data).
ToggleFromResult ==
  /\ Running /\ view = "SEARCH" /\ Truthy(currentResult)
  /\ toggleSave(currentResult)
  /\ UNCHANGED <<search, narrate, now, flow>>

\* The remove button of a row of the notebook screen: toggleSave(item).
ToggleFromNotebook ==
  /\ Running /\ view = "NOTEBOOK" /\ IsArr(notebook)
  /\ \E i \in 1..Length(notebook) : toggleSave(notebook.a[i])
  /\ UNCHANGED <<search, narrate, now, flow>>

---------------------------------------------------------------------------
(* handleSearch *)

\* A button that is disabled only while the term is empty.
SearchButtonIgnoresFlag == searchTerm # ""

\* Whether the button "Explain It" is enabled:
\* disabled={isSearching || !searchTerm}.
SearchButtonEnabled == ~(isSearching \/ searchTerm = "")

\* The click on "Explain It" (enabled unless isSearching || !searchTerm): the
\* handler returns at once on a blank term; otherwise it sets the flag,
\* clears the result and calls explainTerm with the term and context of
\* this render.
HandleSearch ==
  /\ Running /\ view = "SEARCH"
  /\ SearchButtonEnabled
  /\ now < MaxNow
  /\ IF TrimIsEmpty(searchTerm)
     THEN UNCHANGED <<isSearching, currentResult, search, flow, card, converse, speak, discarded>>
     ELSE /\ isSearching' = TRUE
          /\ currentResult' = Null
          /\ FreshCard
          /\ search' = [NoSearch EXCEPT !.pc = "explain", !.term = searchTerm,
                                        !.context = context]
          /\ flow' = FlowAt("Explaining")
  /\ UNCHANGED <<storage, appPc, fault, pending, notebook, view, searchTerm, context,
                 flashcardIndex, story, isGeneratingStory, narrate, now,
                 lastToggle, persisted, boot>>

\* const imagePrompt = textData.imagePrompt || searchTerm: [threw, v]. The
\* read throws a TypeError when textData is null.
ImagePrompt(textData, term) ==
  IF ~CanReadProp(textData) THEN [threw |-> TRUE, v |-> Undefined]
  ELSE IF Truthy(Get(textData, "imagePrompt"))
  THEN [threw |-> FALSE, v |-> Get(textData, "imagePrompt")]
  ELSE [threw |-> FALSE, v |-> Str(term)]

\* A handleSearch without its finally block: a failed search leaves the flag
\* set.
SearchFailsKeepsFlag ==
  /\ search' = NoSearch
  /\ UNCHANGED <<appPc, fault, pending, notebook, view, searchTerm, context,
                 isSearching, currentResult, flashcardIndex, story,
                 isGeneratingStory, lastToggle, boot, card, converse, speak,
                 discarded>>

\* The catch and finally blocks of handleSearch: the alert, and the flag is
\* cleared.
SearchFails ==
  /\ search' = NoSearch
  /\ isSearching' = FALSE
  /\ UNCHANGED <<appPc, fault, pending, notebook, view, searchTerm, context,
                 currentResult, flashcardIndex, story, isGeneratingStory,
                 lastToggle, boot, card, converse, speak, discarded>>

\* The explanation is shown at once, with no image and no call for one.
SearchSkipsIllustrate(textData, prompt) ==
  /\ search' = NoSearch
  /\ isSearching' = FALSE
  /\ currentResult' = MakeEntry(now, search.term, search.context, textData, Undefined)
  /\ FreshCard
  /\ UNCHANGED <<appPc, fault, pending, notebook, view, searchTerm, context,
                 flashcardIndex, story, isGeneratingStory, lastToggle, boot>>

\* explainTerm resolved with textData: generateConceptImage is called with
\* the image prompt.
SearchIllustrates(textData, prompt) ==
  /\ search' = [search EXCEPT !.pc = "illustrate", !.textData = textData,
                              !.prompt = prompt]
  /\ UNCHANGED <<appPc, fault, pending, notebook, view, searchTerm, context,
                 isSearching, currentResult, flashcardIndex, story,
                 isGeneratingStory, lastToggle, boot, card, converse, speak, discarded>>

\* A search that puts its result into the notebook by itself.
SearchCompletesAndSaves(imageUrl) ==
  LET entry == MakeEntry(now + 1, search.term, search.context, search.textData, imageUrl)
  IN /\ search' = NoSearch
     /\ currentResult' = entry
     /\ isSearching' = FALSE
     /\ notebook' = IF IsArr(notebook) THEN Arr(Append(notebook.a, entry)) ELSE notebook
     /\ FreshCard
     /\ UNCHANGED <<appPc, fault, pending, view, searchTerm, context,
                    flashcardIndex, story, isGeneratingStory, lastToggle, boot>>

\* generateConceptImage resolved with imageUrl: the entry is built and
\* becomes the current result, and the flag is cleared.
SearchCompletes(imageUrl) ==
  LET entry == MakeEntry(now + 1, search.term, search.context, search.textData, imageUrl)
  IN /\ search' = NoSearch
     /\ IF RenderThrows(view, notebook, entry, flashcardIndex)
        THEN Crash("render")
        ELSE /\ currentResult' = entry
             /\ isSearching' = FALSE
             /\ FreshCard
             /\ UNCHANGED <<appPc, fault, pending, notebook, view, searchTerm, context,
                            flashcardIndex, story, isGeneratingStory, lastToggle, boot>>

\* A continuation of handleSearch in an unmounted component: the call chain
\* goes on as step says, and its state updates are dropped.
Dropped(step) ==
  /\ search' = step
  /\ UNCHANGED <<appPc, fault, pending, notebook, view, searchTerm, context,
                 isSearching, currentResult, flashcardIndex, story,
                 isGeneratingStory, lastToggle, boot, card, converse, speak, discarded>>

\* The flow state a step of handleSearch leaves: Illustrating while the
\* image call is outstanding, else Ready with a result built, else Failed.
FlowAfter(built) ==
  IF search'.pc = "illustrate" THEN "Illustrating"
  ELSE IF built THEN "Ready" ELSE "Failed"

\* explainTerm settles.
ExplainSettles ==
  /\ search.pc = "explain"
  /\ \E resp \in ExplainResponses :
       LET e == explainTerm(resp)
           p == ImagePrompt(e.v, search.term)
           failed == e.threw \/ p.threw
       IN /\ IF ~Running
             THEN Dropped(IF failed THEN NoSearch
                          ELSE [search EXCEPT !.pc = "illustrate", !.textData = e.v,
                                              !.prompt = p.v])
             ELSE IF failed THEN SearchFails
             ELSE SearchIllustrates(e.v, p.v)
          /\ flow' = [state |-> FlowAfter(search'.pc = "idle" /\ ~failed),
                      explain |-> ExplainOutcome(resp),
                      illustrate |-> "none"]
  /\ UNCHANGED <<storage, narrate, now, persisted>>

\* generateConceptImage settles.
IllustrateSettles ==
  /\ search.pc = "illustrate"
  /\ \E resp \in IllustrateResponses :
       LET g == generateConceptImage(resp)
       IN /\ IF ~Running THEN Dropped(NoSearch)
             ELSE IF g.threw THEN SearchFails
             ELSE SearchCompletes(g.v)
          /\ flow' = [flow EXCEPT !.state = FlowAfter(~g.threw),
                                  !.illustrate = IllustrateOutcome(resp)]
  /\ now' = now + 1
  /\ UNCHANGED <<storage, narrate, persisted>>

-----
(* handleGenerateStory *)

\* notebook.map(n => n.term)
RECURSIVE TermsOf(_)
TermsOf(a) == IF a = <<>> THEN <<>> ELSE <<Get(Head(a), "term")>> \o TermsOf(Tail(a))

\* A button that is disabled only while a story is being generated.
StoryButtonIgnoresLength == ~isGeneratingStory

\* Whether the button "Story Mode" is enabled:
\* disabled={notebook.length < 2 || isGeneratingStory}.
StoryButtonEnabled == ~(Length(notebook) < 2 \/ isGeneratingStory)

\* The click on "Story Mode": the handler returns on an empty notebook;
\* otherwise it sets the flag, clears the story and calls
\* generateStoryFromList with the terms of the notebook.
HandleGenerateStory ==
  /\ Running /\ view = "NOTEBOOK" /\ IsArr(notebook)
  /\ StoryButtonEnabled
  /\ IF Length(notebook) = 0
     THEN UNCHANGED <<isGeneratingStory, story, narrate>>
     ELSE /\ isGeneratingStory' = TRUE
          /\ story' = Null
          /\ narrate' = [pc |-> "narrate", terms |-> TermsOf(notebook.a)]
  /\ UNCHANGED <<storage, appPc, fault, pending, notebook, view, searchTerm, context,
                 isSearching, currentResult, flashcardIndex, search, now, flow,
                 lastToggle, persisted, boot, card, converse, speak, discarded>>

\* generateStoryFromList settles: the story is shown on the story screen; a
\* rejection is logged; the flag is cleared.
NarrateSettles ==
  /\ narrate.pc = "narrate"
  /\ \E resp \in NarrateResponses :
       LET r == generateStoryFromList(resp)
       IN IF ~Running
          THEN UNCHANGED <<story, view, isGeneratingStory, card, converse, speak, discarded>>
          ELSE /\ isGeneratingStory' = FALSE
               /\ IF r.threw
                  THEN UNCHANGED <<story, view, card, converse, speak, discarded>>
                  ELSE /\ story' = Str(r.v)
                       /\ view' = "STORY"
                       /\ FreshCard
  /\ narrate' = NoNarrate
  /\ UNCHANGED <<storage, appPc, fault, pending, notebook, searchTerm, context,
                 isSearching, currentResult, flashcardIndex, search, now, flow,
                 lastToggle, persisted, boot>>

---------------------------------------------------------------------------
(* Inputs, navigation and the flashcards *)

\* onChange of the term input.
SetSearchTerm ==
  /\ Running /\ view = "SEARCH"
  /\ \E v \in TermInputs : v # searchTerm /\ searchTerm' = v
  /\ UNCHANGED <<storage, appPc, fault, pending, notebook, view, context, isSearching,
                 currentResult, flashcardIndex, story, isGeneratingStory, search,
                 narrate, now, flow, lastToggle, persisted, boot, card, converse,
                 speak, discarded>>

\* onChange of the context input.
SetContext ==
  /\ Running /\ view = "SEARCH"
  /\ \E v \in ContextInputs : v # context /\ context' = v
  /\ UNCHANGED <<storage, appPc, fault, pending, notebook, view, searchTerm, isSearching,
                 currentResult, flashcardIndex, story, isGeneratingStory, search,
                 narrate, now, flow, lastToggle, persisted, boot, card, converse,
                 speak, discarded>>

\* A button of the bottom navigation, or "Back" on the story screen.
SetView ==
  /\ Running
  /\ \E v \in {"SEARCH", "NOTEBOOK", "FLASHCARDS"} :
       /\ v # view
       /\ IF RenderThrows(v, notebook, currentResult, flashcardIndex)
          THEN Crash("render")
          ELSE /\ view' = v
               /\ FreshCard
               /\ UNCHANGED <<appPc, fault, pending, notebook, searchTerm, context,
                              isSearching, currentResult, flashcardIndex, story,
                              isGeneratingStory, lastToggle, boot>>
  /\ UNCHANGED <<storage, search, narrate, now, flow, persisted>>

\* onNext and onPrev of the Flashcard.
FlashcardStep ==
  /\ Running /\ view = "FLASHCARDS" /\ IsArr(notebook) /\ Length(notebook) # 0
  /\ \/ flashcardIndex' = (flashcardIndex + 1) % Length(notebook)
     \/ flashcardIndex' = (flashcardIndex - 1 + Length(notebook)) % Length(notebook)
  /\ UNCHANGED <<storage, appPc, fault, pending, notebook, view, searchTerm, context,
                 isSearching, currentResult, story, isGeneratingStory, search, narrate,
                 now, flow, lastToggle, persisted, boot, card, converse, speak, discarded>>

---------------------------------------------------------------------------
(* The ResultCard component *)

\* What the user types into the chat input.
ChatInputs == {"", "eh?"}

\* The user messages of a transcript.
UserMessages(h) == SelectSeq(h, LAMBDA m : m.role = "user")

\* onChange of the chat input.
SetChatInput ==
  /\ CardMounted
  /\ \E v \in ChatInputs : v # card.chatInput /\ card' = [card EXCEPT !.chatInput = v]
  /\ UNCHANGED <<storage, appPc, fault, pending, notebook, view, searchTerm, context,
                 isSearching, currentResult, flashcardIndex, story, isGeneratingStory,
                 search, narrate, now, flow, lastToggle, persisted, boot, converse,
                 speak, discarded>>

\* handleSendChat up to its await: it returns on a blank input; otherwise the
\* message is appended to the transcript, the input is cleared, the flag is
\* set and sendChatMessage is called with the chatHistory and chatInput of
\* this render and the term of the card.
handleSendChat ==
  /\ Len(UserMessages(card.chatHistory)) < MaxChat
  /\ IF TrimIsEmpty(card.chatInput)
     THEN UNCHANGED <<card, converse>>
     ELSE /\ card' = [card EXCEPT
                        !.chatHistory = Append(@, ChatMessage("user", card.chatInput)),
                        !.chatInput = "",
                        !.isChatLoading = TRUE]
          /\ converse' = converse \cup
               { [history |-> card.chatHistory, message |-> card.chatInput,
                  term |-> Get(currentResult, "term")] }
  /\ UNCHANGED <<storage, appPc, fault, pending, notebook, view, searchTerm, context,
                 isSearching, currentResult, flashcardIndex, story, isGeneratingStory,
                 search, narrate, now, flow, lastToggle, persisted, boot, speak, discarded>>

\* The click on the send button: disabled={isChatLoading}.
SendChatClick ==
  /\ CardMounted /\ ~card.isChatLoading
  /\ handleSendChat

\* Enter in the chat input: onKeyDown calls handleSendChat whatever the flag.
SendChatEnter ==
  /\ CardMounted
  /\ handleSendChat

\* A sendChatMessage call of the mounted card settles: the reply is appended
\* to the transcript; a rejection is logged; the flag is cleared.
ConverseSettles ==
  /\ \E req \in converse, resp \in ConverseResponses :
       LET r == sendChatMessage(resp)
       IN /\ card' = [card EXCEPT
                        !.chatHistory = IF r.threw THEN @
                                        ELSE Append(@, ChatMessage("model", r.v)),
                        !.isChatLoading = FALSE]
          /\ converse' = converse \ {req}
  /\ UNCHANGED <<storage, appPc, fault, pending, notebook, view, searchTerm, context,
                 isSearching, currentResult, flashcardIndex, story, isGeneratingStory,
                 search, narrate, now, flow, lastToggle, persisted, boot, speak, discarded>>

\* The click on a speaker button of the card: handleAudio returns while a
\* playback is being fetched; otherwise it sets the flag and calls playTTS.
HandleAudio ==
  /\ CardMounted /\ ~card.isPlayingAudio
  /\ card' = [card EXCEPT !.isPlayingAudio = TRUE]
  /\ speak' = TRUE
  /\ UNCHANGED <<storage, appPc, fault, pending, notebook, view, searchTerm, context,
                 isSearching, currentResult, flashcardIndex, story, isGeneratingStory,
                 search, narrate, now, flow, lastToggle, persisted, boot, converse, discarded>>

\* playTTS settles (it catches what it throws): the flag is cleared.
SpeakSettles ==
  /\ speak
  /\ card' = [card EXCEPT !.isPlayingAudio = FALSE]
  /\ speak' = FALSE
  /\ UNCHANGED <<storage, appPc, fault, pending, notebook, view, searchTerm, context,
                 isSearching, currentResult, flashcardIndex, story, isGeneratingStory,
                 search, narrate, now, flow, lastToggle, persisted, boot, converse, discarded>>

CardNext ==
  \/ SetChatInput
  \/ SendChatClick
  \/ SendChatEnter
  \/ ConverseSettles
  \/ HandleAudio
  \/ SpeakSettles

Next ==
  \/ Mount
  \/ MountCommit
  \/ Restart
  \/ ToggleFromResult
  \/ ToggleFromNotebook
  \/ HandleSearch
  \/ ExplainSettles
  \/ IllustrateSettles
  \/ HandleGenerateStory
  \/ NarrateSettles
  \/ SetSearchTerm
  \/ SetContext
  \/ SetView
  \/ FlashcardStep

Spec == Init /\ [][Next]_vars

\* The steps of a session that starts with an empty notebook and makes one
\* search: "Story Mode" stays disabled (notebook.length < 2).
FirstNext ==
  \/ Mount
  \/ MountCommit
  \/ Restart
  \/ ToggleFromResult
  \/ ToggleFromNotebook
  \/ HandleSearch
  \/ ExplainSettles
  \/ IllustrateSettles
  \/ SetSearchTerm
  \/ SetContext
  \/ SetView
  \/ FlashcardStep

\* The sessions after a first launch in which every call of handleSearch to
\* the service settles.
LiveSpec ==
  /\ FirstLaunch
  /\ [][FirstNext]_vars
  /\ WF_vars(ExplainSettles)
  /\ WF_vars(IllustrateSettles)

\* The life of one ResultCard: a first launch with the clock one search
\* before its end, and the handlers of the card.
CardLaunch == StartAt(MaxNow - 1, NoStore)
CardSpec == CardLaunch /\ [][FirstNext \/ CardNext]_vars
---------------------------------------------------------------------------
(* Properties *)

\* The number of entries of the array a whose term is term.
RECURSIVE CountTerm(_, _)
CountTerm(a, term) ==
  IF a = <<>> THEN 0
  ELSE (IF StrictEq(Get(Head(a), "term"), term) THEN 1 ELSE 0) + CountTerm(Tail(a), term)

\* The fields of a DictionaryEntry (types.ts), and the image prompt the
\* explanation carries with it.
EntryFields == {"id", "term", "context", "definitionEnglish", "definitionMandarin",
                "examples", "usageNote", "imageUrl", "timestamp", "imagePrompt"}
TextFields == {"definitionEnglish", "definitionMandarin", "examples", "usageNote"}

\* C1, first half: after a toggle of an entry whose term was not in the
\* notebook, the notebook is one entry longer, the entry is its last one and
\* no other entry has its term.
ToggleAddsOne ==
  lastToggle.kind = "add" =>
    /\ Length(notebook) = lastToggle.before + 1
    /\ CountTerm(notebook.a, lastToggle.term) = 1
    /\ StrictEq(Get(notebook.a[Length(notebook)], "term"), lastToggle.term)

\* C1, second half: the next toggle on the term of an entry just added
\* removes it, and the notebook is as long as before the first toggle.
ToggleAgainRemoves ==
  (/\ lastToggle.kind = "add"
   /\ lastToggle' # lastToggle
   /\ lastToggle'.kind # "none"
   /\ lastToggle'.term = lastToggle.term)
  => /\ lastToggle'.kind = "remove"
     /\ CountTerm(notebook'.a, lastToggle.term) = 0
     /\ Length(notebook') = lastToggle.before

\* C1: toggle on a term that is not saved appends exactly one entry with that
\* term; a second toggle on the term removes it and the size is as before
\* the first.
ToggleRoundTrip == []ToggleAddsOne /\ [][ToggleAgainRemoves]_vars

\* C1 witness: an entry was saved and unsaved again, next to another entry.
ToggleRoundTripWitness ==
  /\ Running
  /\ lastToggle = [kind |-> "remove", term |-> Str("double-double"), before |-> 2]
  /\ Length(notebook) = 1

\* C2: no two entries of the notebook have the same term.
UniqueTerms ==
  IsArr(notebook) =>
    \A i, j \in 1..Length(notebook) :
      StrictEq(Get(notebook.a[i], "term"), Get(notebook.a[j], "term")) => i = j

\* C2 witness: the result of a new search for a term that an earlier session
\* saved was toggled, which removed the saved entry.
UniqueTermsWitness ==
  /\ Running
  /\ lastToggle.kind = "remove"
  /\ lastToggle.term = Str("toque")
  /\ view = "SEARCH"
  /\ Get(currentResult, "id") = Str("1")
  /\ Length(notebook) = 0

\* The entries of the lists a and b have the same field values, in order.
SameEntries(a, b) ==
  /\ Len(a) = Len(b)
  /\ \A i \in 1..Len(a) : \A k \in EntryFields : Get(a[i], k) = Get(b[i], k)

\* The notebook is as the load effect set it.
Loaded == Running /\ boot.known

\* C3: when the slot holds a persisted list of entries at process start, the
\* notebook after the load is a list of the same entries, in the same order
\* and with the same field values.
ReloadRoundTrip ==
  (Loaded /\ boot.coll.known /\ IsArr(boot.coll.v)) =>
    IsArr(notebook) /\ SameEntries(notebook.a, boot.coll.v.a)

\* C3 witness: two entries were reloaded, one with an image and one without.
ReloadRoundTripWitness ==
  /\ Loaded /\ boot.coll.known /\ IsArr(boot.coll.v) /\ IsArr(notebook)
  /\ Length(notebook) = 2
  /\ Get(notebook.a[1], "imageUrl") = Undefined
  /\ IsStr(Get(notebook.a[2], "imageUrl"))
  /\ Get(notebook.a[2], "context") = Str("at \"Tims\"")

\* The slot holds a JSON-encoded list.
ValidListSlot(slot) ==
  slot.present /\ JsonParse(slot.text).ok /\ IsArr(JsonParse(slot.text).v)

\* C4: when the slot is absent or holds no JSON-encoded list at process
\* start, the notebook after the load is the empty list.
MalformedSlotLoadsEmpty ==
  (Loaded /\ ~ValidListSlot(boot.slot)) => notebook = Arr(<<>>)

\* C5: once the save effect has run, the slot holds the serialization of the
\* whole notebook in memory.
WriteThrough ==
  Running => /\ storage = Item(Stringify(notebook))
             /\ persisted = Collection(notebook)

\* C5 witness: an entry was added and another removed, and the slot holds
\* the one entry left.
WriteThroughWitness ==
  /\ Running
  /\ lastToggle.kind = "remove"
  /\ IsArr(notebook) /\ Length(notebook) = 1
  /\ Get(notebook.a[1], "term") = Str("double-double")
  /\ storage = Item(Stringify(notebook))

\* C6: a failing read or write of the slot never ends as an uncaught error
\* that unmounts the application.
StorageFailureSwallowed == fault \notin {"getItem", "setItem"}

\* The transitions of the search flow: those of one search, and the start
\* of the next search after the last one ended.
FlowTransitions ==
  { <<"Idle", "Explaining">>, <<"Explaining", "Illustrating">>,
    <<"Illustrating", "Ready">>, <<"Explaining", "Failed">>,
    <<"Ready", "Explaining">>, <<"Failed", "Explaining">> }

\* The flow state is Explaining exactly while the explainTerm call is
\* outstanding and Illustrating exactly while the generateConceptImage call
\* is; the image call has the explanation it was derived from.
FlowMatchesCalls ==
  /\ flow.state = "Explaining" <=> search.pc = "explain"
  /\ flow.state = "Illustrating" <=> search.pc = "illustrate"
  /\ search.pc = "illustrate" => IsObj(search.textData) /\ flow.explain = "explanation"

\* A step changes the flow state along a transition of the flow; a restart
\* of the page puts it back to Idle. The image call is issued only by the
\* step that ends the explanation call.
FlowStep ==
  /\ flow'.state # flow.state =>
       \/ <<flow.state, flow'.state>> \in FlowTransitions
       \/ appPc' = "start" /\ flow'.state = "Idle"
  /\ (search'.pc = "illustrate" /\ search.pc # "illustrate") => search.pc = "explain"

\* C7: a search goes Idle, Explaining, Illustrating, Ready or Idle,
\* Explaining, Failed: the image call starts only when the explanation call
\* has ended well, the two are never outstanding together, and Ready is
\* reached only from Illustrating.
SearchFlowSequential == []FlowMatchesCalls /\ [][FlowStep]_vars

\* C7 witness: a search has reached Ready and shows its result.
SearchFlowSequentialWitness ==
  /\ Running
  /\ flow.state = "Ready"
  /\ search.pc = "idle"
  /\ Truthy(currentResult)

\* The explanation call of a search that ended in failure: a rejection, an
\* empty text or a text that is not JSON.
ExplainFailed == flow.explain \in {"rejected", "empty", "unparsable"}

\* After a failed explanation the flow is Failed, there is no result and no
\* image call.
ExplainFailureState ==
  ExplainFailed => /\ flow.state = "Failed"
                   /\ flow.illustrate = "none"
                   /\ search.pc = "idle"
                   /\ currentResult = Null

\* The step in which the explanation fails leaves the notebook and the slot
\* as they are.
ExplainFailureStep ==
  (search.pc = "explain" /\ ExplainFailed') =>
    /\ notebook' = notebook
    /\ storage' = storage
    /\ search'.pc = "idle"

\* C8: when the explanation fails no result is produced, no image is asked
\* for and the notebook does not change.
ExplainFailureAborts == []ExplainFailureState /\ [][ExplainFailureStep]_vars

\* C8 witness: a search failed on a text that is not JSON, with an entry in
\* the notebook.
ExplainFailureAbortsWitness ==
  /\ Running
  /\ flow.explain = "unparsable"
  /\ ~isSearching
  /\ IsArr(notebook) /\ Length(notebook) = 1

\* The image call ended without an image: a rejection, or a response with
\* no image part.
IllustrateFailed == flow.illustrate \in {"rejected", "noImage"}

\* The step in which the image call ends without an image: the flow is
\* Ready and, where the application still renders (the render of a result
\* throws on a notebook that is no list), the result has the term of the
\* search, the text fields of the explanation and no image reference.
IllustrateFailureStep ==
  (search.pc = "illustrate" /\ search'.pc = "idle" /\ IllustrateFailed') =>
    /\ flow'.state = "Ready"
    /\ (Running /\ appPc' = "running") =>
         /\ IsObj(currentResult')
         /\ Get(currentResult', "term") = Str(search.term)
         /\ \A k \in TextFields :
              /\ Get(search.textData, k) # Undefined
              /\ Get(currentResult', k) = Get(search.textData, k)
         /\ Get(currentResult', "imageUrl") = Undefined
         /\ ~isSearching'

\* C9: when the explanation succeeds and the image call fails, the search
\* ends in Ready, never in Failed, with a result that has the text fields of
\* the explanation and no image reference.
IllustrateFailureIsReady == [][IllustrateFailureStep]_vars

\* C9 witness: a search whose image call was rejected shows its result.
IllustrateFailureIsReadyWitness ==
  /\ Running
  /\ flow = [state |-> "Ready", explain |-> "explanation", illustrate |-> "rejected"]
  /\ IsObj(currentResult)
  /\ Get(currentResult, "imageUrl") = Undefined
  /\ Get(currentResult, "definitionEnglish") = Str("knit cap")

\* The step that calls generateStoryFromList: the notebook holds at least
\* two entries and the terms passed are the terms of its entries, in order.
StoryCallStep ==
  (narrate.pc = "idle" /\ narrate'.pc = "narrate") =>
    /\ IsArr(notebook)
    /\ Length(notebook) >= 2
    /\ Len(narrate'.terms) = Length(notebook)
    /\ \A i \in 1..Length(notebook) : narrate'.terms[i] = Get(notebook.a[i], "term")

\* C10: generateStoryFromList is never called with fewer than two terms, and
\* the terms passed are those of the saved entries in the order they were
\* saved.
StoryNeedsTwoTerms ==
  /\ [](narrate.pc = "narrate" => Len(narrate.terms) >= 2)
  /\ [][StoryCallStep]_vars

\* C10 witness: toque was saved, then double-double, and the story call has
\* the two terms in that order.
StoryNeedsTwoTermsWitness ==
  /\ Running
  /\ narrate = [pc |-> "narrate", terms |-> <<Str("toque"), Str("double-double")>>]
  /\ lastToggle = [kind |-> "add", term |-> Str("double-double"), before |-> 1]

\* A step that shows another screen while the application keeps running.
Navigates == Running /\ Running' /\ view' # view

\* C11 as stated: once the user has left the search screen, the candidate
\* result and the chat transcript of its card no longer exist.
NavigationDiscardsCandidate ==
  [][(Navigates /\ view = "SEARCH") =>
       (currentResult' = Null /\ card'.chatHistory = <<>>)]_vars

\* C11, amended: a change of screen discards the chat transcript of the card
\* and the calls of the card that have not settled, and keeps the candidate
\* result: back on the search screen the same candidate is shown with an
\* empty transcript.
NavigationDiscardsTranscript ==
  [][Navigates =>
       (currentResult' = currentResult /\ card' = NoCard /\ converse' = {})]_vars

\* C11 witness: the candidate is shown again on the search screen after its
\* card was unmounted with messages in the transcript, and the transcript
\* is empty.
NavigationDiscardsTranscriptWitness ==
  /\ CardMounted
  /\ discarded = currentResult
  /\ card.chatHistory = <<>>

\* The array a without its i-th element.
RemoveAt(a, i) == SubSeq(a, 1, i - 1) \o SubSeq(a, i + 1, Len(a))

\* A step of toggleSave.
ToggleStep == ToggleFromResult \/ ToggleFromNotebook

\* While the application runs the notebook in memory changes only in a step
\* of toggleSave, which appends the candidate result as it is or removes one
\* entry and leaves the others as they are; the slot changes only in a step
\* of toggleSave or while the application starts.
NotebookFrameStep ==
  /\ (Running /\ Running' /\ notebook' # notebook) =>
       \/ /\ ToggleFromResult
          /\ notebook'.a = Append(notebook.a, currentResult)
       \/ /\ ToggleStep
          /\ \E i \in 1..Length(notebook) : notebook'.a = RemoveAt(notebook.a, i)
  /\ (storage' # storage) => (ToggleStep \/ Mount \/ MountCommit)

CursorInNotebook ==
  (Running /\ IsArr(notebook) /\ Length(notebook) # 0) =>
    (0 <= flashcardIndex /\ flashcardIndex < Length(notebook))

\* C14: from process start until the loaded collection is in memory, a slot
\* that held a list with entries at process start still holds a list of the
\* same entries, so that a reload at that point recovers them.
StartupKeepsCollection ==
  (/\ appPc \in {"start", "mounted"}
   /\ boot.known
   /\ ValidListSlot(boot.slot)
   /\ Length(JsonParse(boot.slot.text).v) # 0) =>
    /\ ValidListSlot(storage)
    /\ SameEntries(JsonParse(storage.text).v.a, JsonParse(boot.slot.text).v.a)

\* A search starts only when no search is in flight and the flag is clear,
\* and a result is shown only by the search in flight, with its term and
\* context, as that search ends.
OneSearchStep ==
  /\ (search'.pc = "explain" /\ search' # search) =>
       (search.pc = "idle" /\ ~isSearching)
  /\ (Running' /\ Truthy(currentResult') /\ currentResult' # currentResult) =>
       /\ search.pc = "illustrate" /\ search' = NoSearch
       /\ Get(currentResult', "term") = Str(search.term)
       /\ Get(currentResult', "context") = Str(search.context)

\* C15: at most one search chain is in flight at any time, and the result
\* shown is the outcome of the search started last.
OneSearchInFlight == [][OneSearchStep]_vars

\* C15 witness: while a search awaits its image the user has typed another
\* term, and the button is disabled.
OneSearchInFlightWitness ==
  /\ Running /\ view = "SEARCH"
  /\ search.pc = "illustrate"
  /\ searchTerm = "double-double" /\ search.term = "toque"
  /\ ~SearchButtonEnabled

\* C16: at most one sendChatMessage call of a card is awaiting its reply.
OneConverseOutstanding == Cardinality(converse) <= 1

\* While the application is mounted the flag isSearching is set exactly
\* while a search chain is in flight.
FlagMatchesSearch == Running => (isSearching <=> search.pc # "idle")

\* C17: every search that starts ends, whether explainTerm fails,
\* generateConceptImage finds no image or both succeed, and then the flag is
\* clear and the button is enabled again for a term; the flag is set exactly
\* while a search chain is in flight.
SearchEnds ==
  /\ []FlagMatchesSearch
  /\ (search.pc # "idle") ~> (search.pc = "idle" /\ ~isSearching)

\* C17 witness: a search whose explanation came back empty has ended, and
\* the button is enabled again.
SearchEndsWitness ==
  /\ Running /\ view = "SEARCH"
  /\ flow.state = "Failed" /\ flow.explain = "empty"
  /\ search = NoSearch
  /\ SearchButtonEnabled

=============================================================================
